---- MODULE Spec2Model ----
(***************************************************************************)
(* Model of the AI movie search backend:                                   *)
(*   app/services/query_translator.py  QueryTranslator                     *)
(*   app/services/tmdb_service.py      TMDBService                         *)
(*   app/main.py                       POST /api/search                    *)
(* Python str values are TLA+ strings, handled character by character with *)
(* Len, SubSeq and \o.  Python dicts are functions from keys to values.    *)
(***************************************************************************)
EXTENDS Integers, Sequences, FiniteSets, TLC

(***************************************************************************)
(* Python str primitives                                                   *)
(***************************************************************************)
None == "<None>"

UpperChars == "ABCDEFGHIJKLMNOPQRSTUVWXYZ"

LowerChars == "abcdefghijklmnopqrstuvwxyz"

DigitChars == "0123456789"

At(s, i) == SubSeq(s, i, i)

CharIn(c, alphabet) == \E i \in 1..Len(alphabet) : At(alphabet, i) = c

IndexIn(c, alphabet) == CHOOSE i \in 1..Len(alphabet) : At(alphabet, i) = c

IsSpace(c) == c \in {" ", "\n", "\t", "\r"}

IsDigitChar(c) == CharIn(c, DigitChars)

IsCased(c) == CharIn(c, UpperChars) \/ CharIn(c, LowerChars)

\* regex \w
IsWordChar(c) == IsCased(c) \/ IsDigitChar(c) \/ c = "_"

LowerChar(c) == IF CharIn(c, UpperChars) THEN At(LowerChars, IndexIn(c, UpperChars)) ELSE c

UpperChar(c) == IF CharIn(c, LowerChars) THEN At(UpperChars, IndexIn(c, LowerChars)) ELSE c

RECURSIVE LowerRange(_, _, _)
\* the characters lo..hi of s, lower-cased (by halves, to keep the recursion shallow)
LowerRange(s, lo, hi) ==
    IF lo > hi THEN ""
    ELSE IF lo = hi THEN LowerChar(At(s, lo))
    ELSE LET mid == (lo + hi) \div 2
         IN LowerRange(s, lo, mid) \o LowerRange(s, mid + 1, hi)

\* str.lower()
Lower(s) == LowerRange(s, 1, Len(s))

\* character i of s.title(): upper case after an uncased character, lower case after a cased one
TitleChar(s, i) ==
    IF i > 1 /\ IsCased(At(s, i - 1)) THEN LowerChar(At(s, i)) ELSE UpperChar(At(s, i))

RECURSIVE TitleRange(_, _, _)
TitleRange(s, lo, hi) ==
    IF lo > hi THEN ""
    ELSE IF lo = hi THEN TitleChar(s, lo)
    ELSE LET mid == (lo + hi) \div 2
         IN TitleRange(s, lo, mid) \o TitleRange(s, mid + 1, hi)

\* str.title()
Title(s) == TitleRange(s, 1, Len(s))

RECURSIVE LStrip(_)
LStrip(s) == IF s # "" /\ IsSpace(At(s, 1)) THEN LStrip(SubSeq(s, 2, Len(s))) ELSE s

RECURSIVE RStrip(_)
RStrip(s) == IF s # "" /\ IsSpace(At(s, Len(s))) THEN RStrip(SubSeq(s, 1, Len(s) - 1)) ELSE s

\* str.strip()
Strip(s) == RStrip(LStrip(s))

\* str.isdigit()
IsDigit(s) == s # "" /\ \A i \in 1..Len(s) : IsDigitChar(At(s, i))

MatchAt(s, sub, i) == i >= 1 /\ i + Len(sub) - 1 <= Len(s) /\ SubSeq(s, i, i + Len(sub) - 1) = sub

Min(S) == CHOOSE x \in S : \A y \in S : x <= y

\* 1-based str.find(sub, from): position of the first occurrence at or after from, 0 if none
Find(s, sub, from) ==
    LET hits == { i \in from..(Len(s) - Len(sub) + 1) : MatchAt(s, sub, i) }
    IN IF hits = {} THEN 0 ELSE Min(hits)

\* sub in s
Contains(s, sub) == Find(s, sub, 1) # 0

RECURSIVE SplitLastFrom(_, _, _)
SplitLastFrom(s, sep, from) ==
    LET i == Find(s, sep, from)
    IN IF i = 0 THEN SubSeq(s, from, Len(s)) ELSE SplitLastFrom(s, sep, i + Len(sep))

\* s.split(sep)[-1]
SplitLast(s, sep) == SplitLastFrom(s, sep, 1)

\* s.split(sep)[0]
SplitFirst(s, sep) ==
    LET i == Find(s, sep, 1)
    IN IF i = 0 THEN s ELSE SubSeq(s, 1, i - 1)

\* the position after the word that starts at i
WordEnd(s, i) == Min({ j \in i..(Len(s) + 1) : j > Len(s) \/ IsSpace(At(s, j)) })

RECURSIVE SplitWSFrom(_, _)
SplitWSFrom(s, i) ==
    IF i > Len(s) THEN << >>
    ELSE IF IsSpace(At(s, i)) THEN SplitWSFrom(s, i + 1)
    ELSE LET e == WordEnd(s, i)
         IN << SubSeq(s, i, e - 1) >> \o SplitWSFrom(s, e)

\* s.split()
SplitWS(s) == SplitWSFrom(s, 1)

RECURSIVE Join(_, _)
\* sep.join(words)
Join(sep, words) ==
    IF words = << >> THEN ""
    ELSE IF Len(words) = 1 THEN words[1]
    ELSE words[1] \o sep \o Join(sep, Tail(words))

RECURSIVE ToStr(_)
\* str(n) for n >= 0
ToStr(n) == IF n < 10 THEN At(DigitChars, n + 1) ELSE ToStr(n \div 10) \o At(DigitChars, (n % 10) + 1)

(***************************************************************************)
(* Python dict primitives                                                  *)
(***************************************************************************)
EmptyDict == [k \in {} |-> ""]

Put(d, k, v) == [x \in (DOMAIN d) \cup {k} |-> IF x = k THEN v ELSE d[x]]

Del(d, k) == [x \in (DOMAIN d) \ {k} |-> d[x]]

\* {**a, **b}
Merge(a, b) == [x \in (DOMAIN a) \cup (DOMAIN b) |-> IF x \in DOMAIN b THEN b[x] ELSE a[x]]

RECURSIVE DictOf(_)
\* a dict filled from a list of (key, value) pairs, later pairs overwriting
DictOf(pairs) ==
    IF pairs = << >> THEN EmptyDict
    ELSE LET n == Len(pairs)
         IN Put(DictOf(SubSeq(pairs, 1, n - 1)), pairs[n][1], pairs[n][2])

Intent(t, p) == [search_type |-> t, params |-> p]

(***************************************************************************)
(* QueryTranslator                                                         *)
(***************************************************************************)
\* self.genre_map, in insertion order
genre_map ==
    << <<"action", 28>>, <<"adventure", 12>>, <<"animation", 16>>, <<"comedy", 35>>,
       <<"crime", 80>>, <<"documentary", 99>>, <<"drama", 18>>, <<"family", 10751>>,
       <<"fantasy", 14>>, <<"history", 36>>, <<"horror", 27>>, <<"music", 10402>>,
       <<"mystery", 9648>>, <<"romance", 10749>>, <<"science fiction", 878>>,
       <<"sci-fi", 878>>, <<"thriller", 53>>, <<"war", 10752>>, <<"western", 37>> >>

TitlePhrases == << "find movie", "movie called", "film called" >>

RatingPhrases == { "high rating", "good rating", "top rated", "best" }

stop_words ==
    { "the", "a", "an", "and", "or", "but", "in", "on", "at", "to", "for", "of", "with",
      "by", "from", "movies", "films", "movie", "film", "search", "find", "show", "me" }

HasTitlePhrase(query) == \E i \in 1..Len(TitlePhrases) : Contains(query, TitlePhrases[i])

\* the first phrase of the list, in list order, that occurs in the query
FirstTitlePhrase(query) ==
    TitlePhrases[CHOOSE i \in 1..Len(TitlePhrases) :
                    /\ Contains(query, TitlePhrases[i])
                    /\ \A j \in 1..(i - 1) : ~Contains(query, TitlePhrases[j])]

GenreHit(query, g) ==
    \/ Contains(query, genre_map[g][1])
    \/ Contains(query, genre_map[g][1] \o " movie")
    \/ Contains(query, genre_map[g][1] \o " film")

\* index of the first genre_map entry that matches, 0 if none
DetectGenre(query) ==
    IF \E g \in 1..Len(genre_map) : GenreHit(query, g)
    THEN CHOOSE g \in 1..Len(genre_map) :
             GenreHit(query, g) /\ \A h \in 1..(g - 1) : ~GenreHit(query, h)
    ELSE 0

\* re.search(r'\b(19|20)\d{2}\b', query) matches at position i
YearAt(query, i) ==
    /\ i + 3 <= Len(query)
    /\ SubSeq(query, i, i + 1) \in {"19", "20"}
    /\ IsDigitChar(At(query, i + 2))
    /\ IsDigitChar(At(query, i + 3))
    /\ (i = 1 \/ ~IsWordChar(At(query, i - 1)))
    /\ (i + 3 = Len(query) \/ ~IsWordChar(At(query, i + 4)))

\* position of the leftmost year match, 0 if none
DetectYear(query) ==
    LET hits == { i \in 1..Len(query) : YearAt(query, i) }
    IN IF hits = {} THEN 0 ELSE Min(hits)

DetectRating(query) == \E p \in RatingPhrases : Contains(query, p)

ActorName(query) == Strip(SplitFirst(SplitFirst(Strip(SplitLast(query, "starring")), " in "), " from "))

DetectActor(query) ==
    /\ Contains(query, "starring") \/ Contains(query, "with ")
    /\ Contains(query, "starring")
    /\ Len(SplitWS(ActorName(query))) <= 3

\* a variant of IsKeyword without the length test
IsKeywordAnyLength(word) == word \notin stop_words

IsKeyword(word) == word \notin stop_words /\ Len(word) > 2

RECURSIVE Keywords(_)
\* [word for word in words if word not in stop_words and len(word) > 2]
Keywords(words) ==
    IF words = << >> THEN << >>
    ELSE (IF IsKeyword(Head(words)) THEN << Head(words) >> ELSE << >>) \o Keywords(Tail(words))

DefaultIntent == Intent("discover", DictOf(<< <<"sort_by", "popularity.desc">>, <<"vote_count.gte", "200">> >>))

\* a variant of DetectedParams in which the detectors form an if/elif chain
DetectedParamsFirstMatch(query) ==
    LET g == DetectGenre(query)
        y == DetectYear(query)
    IN IF g # 0 THEN Put(EmptyDict, "with_genres", ToStr(genre_map[g][2]))
       ELSE IF y # 0 THEN Put(EmptyDict, "primary_release_year", SubSeq(query, y, y + 3))
       ELSE IF DetectRating(query) THEN Put(EmptyDict, "vote_average.gte", "7.5")
       ELSE IF DetectActor(query) THEN Put(EmptyDict, "with_cast", Title(ActorName(query)))
       ELSE EmptyDict

\* the genre, year, rating and actor blocks of _translate_with_rules, on the lower-cased query
DetectedParams(query) ==
    LET g == DetectGenre(query)
        y == DetectYear(query)
        p0 == EmptyDict
        p1 == IF g # 0 THEN Put(p0, "with_genres", ToStr(genre_map[g][2])) ELSE p0
        p2 == IF y # 0 THEN Put(p1, "primary_release_year", SubSeq(query, y, y + 3)) ELSE p1
        p3 == IF DetectRating(query) THEN Put(p2, "vote_average.gte", "7.5") ELSE p2
    IN IF DetectActor(query) THEN Put(p3, "with_cast", Title(ActorName(query))) ELSE p3

\* _translate_with_rules
TranslateWithRules(natural_query) ==
    LET query == Lower(natural_query)
        params == DetectedParams(query)
        keywords == Keywords(SplitWS(query))
    IN IF HasTitlePhrase(query)
       THEN Intent("search", DictOf(<< <<"query", Strip(SplitLast(query, FirstTitlePhrase(query)))>> >>))
       ELSE IF params = EmptyDict
       THEN IF keywords # << >>
            THEN Intent("search", DictOf(<< <<"query", Join(" ", SubSeq(keywords, 1, IF Len(keywords) < 3 THEN Len(keywords) ELSE 3))>> >>))
            ELSE DefaultIntent
       ELSE Intent("discover", params)

TypeOpen == "<type>"

TypeClose == "</type>"

ParamOpen == "<param name=\""

ParamClose == "</param>"

\* group 1 of re.search(r'<type>(.*?)</type>', xml_response, re.DOTALL), None if no match
TypeMatch(xml_response) ==
    LET i == Find(xml_response, TypeOpen, 1)
        j == IF i = 0 THEN 0 ELSE Find(xml_response, TypeClose, i + Len(TypeOpen))
    IN IF j = 0 THEN None ELSE SubSeq(xml_response, i + Len(TypeOpen), j - 1)

RECURSIVE ParamMatches(_, _)
\* re.findall(r'<param name="([^"]+)">(.*?)</param>', xml_response, re.DOTALL), scanning from position from
ParamMatches(xml_response, from) ==
    LET i == Find(xml_response, ParamOpen, from)
        n == i + Len(ParamOpen)
        q == Find(xml_response, "\"", n)
        k == IF q > n /\ MatchAt(xml_response, "\">", q)
             THEN Find(xml_response, ParamClose, q + 2)
             ELSE 0
    IN IF i = 0 THEN << >>
       ELSE IF k = 0 THEN ParamMatches(xml_response, i + 1)
       ELSE << << SubSeq(xml_response, n, q - 1), SubSeq(xml_response, q + 2, k - 1) >> >>
              \o ParamMatches(xml_response, k + Len(ParamClose))

RECURSIVE StripPairs(_)
StripPairs(pairs) ==
    IF pairs = << >> THEN << >>
    ELSE << << Strip(pairs[1][1]), Strip(pairs[1][2]) >> >> \o StripPairs(Tail(pairs))

\* _parse_xml_response
ParseXmlResponse(xml_response) ==
    LET type_match == TypeMatch(xml_response)
    IN Intent(IF type_match # None THEN Strip(type_match) ELSE "search",
              DictOf(StripPairs(ParamMatches(xml_response, 1))))

\* self.genre_map lookup: index of the entry named genre_name, 0 if absent
GenreIndex(genre_name) ==
    IF \E g \in 1..Len(genre_map) : genre_map[g][1] = genre_name
    THEN CHOOSE g \in 1..Len(genre_map) : genre_map[g][1] = genre_name
    ELSE 0

\* _validate_and_process_params
ValidateAndProcessParams(parsed_result) ==
    LET params == parsed_result.params
        genre_name == Lower(params["with_genres"])
    IN Intent(parsed_result.search_type,
              IF "with_genres" \in DOMAIN params
                 /\ ~IsDigit(params["with_genres"])
                 /\ GenreIndex(genre_name) # 0
              THEN Put(params, "with_genres", ToStr(genre_map[GenreIndex(genre_name)][2]))
              ELSE params)

(***************************************************************************)
(* TMDBService: pure parts                                                 *)
(***************************************************************************)
image_base_url == "https://image.tmdb.org/t/p"

\* default of the limit argument of search_movies
DefaultLimit == 20

\* the fixed entries of api_params
CommonParams(api_key) ==
    DictOf(<< <<"api_key", api_key>>, <<"include_adult", "false">>,
              <<"language", "en-US">>, <<"page", "1">> >>)

\* api_params = {"api_key": ..., "include_adult": ..., "language": ..., "page": ..., **params}
ApiParams(api_key, params) == Merge(CommonParams(api_key), params)

\* an id that is missing (None) or zero: falsy in "if person_id"
NoId == 0

Failed(reply) == reply.kind # "ok"

\* _get_person_id: the id of the first result, NoId when the call failed or found nobody
GetPersonId(reply) ==
    IF Failed(reply) THEN NoId
    ELSE IF reply.body = << >> THEN NoId
    ELSE reply.body[1]

\* a variant of ResolvePerson that leaves the name in place when nobody was found
ResolvePersonKeepName(params, key, person_id) ==
    IF person_id # NoId THEN Put(params, key, ToStr(person_id)) ELSE params

\* the if/else on person_id in _discover_movies
ResolvePerson(params, key, person_id) ==
    IF person_id # NoId THEN Put(params, key, ToStr(person_id)) ELSE Del(params, key)

\* if "sort_by" not in params: params["sort_by"] = "popularity.desc"
WithDefaultSort(params) ==
    IF "sort_by" \in DOMAIN params THEN params ELSE Put(params, "sort_by", "popularity.desc")

\* a variant of Take that ignores the limit
TakeAll(movies, limit) == movies

\* movies[:limit] for limit >= 0
Take(movies, limit) == SubSeq(movies, 1, IF limit < Len(movies) THEN limit ELSE Len(movies))

\* _get_genre_mapping: {} on any failure
GetGenreMapping(reply) == IF Failed(reply) THEN << >> ELSE reply.body

RECURSIVE GenreNames(_, _)
\* [genre_map.get(genre_id, "") for genre_id in genre_ids if genre_id in genre_map]
GenreNames(genre_ids, gm) ==
    IF genre_ids = << >> THEN << >>
    ELSE (IF Head(genre_ids) \in DOMAIN gm THEN << gm[Head(genre_ids)] >> ELSE << >>)
           \o GenreNames(Tail(genre_ids), gm)

\* _format_movie, for the fields id, genre_ids, genre_names, poster_path, poster_url
FormatMovie(movie, gm) ==
    [id |-> movie.id,
     genre_ids |-> movie.genre_ids,
     genre_names |-> GenreNames(movie.genre_ids, gm),
     poster_path |-> movie.poster_path,
     poster_url |-> IF movie.poster_path \notin {None, ""}
                    THEN image_base_url \o "/w500" \o movie.poster_path
                    ELSE None]

\* the loop of _format_movies
FormatAll(movies, gm) == [i \in 1..Len(movies) |-> FormatMovie(movies[i], gm)]

(***************************************************************************)
(* Bounds and input sets                                                   *)
(***************************************************************************)
MaxWords == 2

MaxParams == 2

MaxResults == 2

MaxLimit == 2

\* all sequences over S of length at most n
SeqsUpTo(S, n) == UNION { [1..k -> S] : k \in 0..n }

\* queries taken from the translator's prompt and from the project's stated examples
SampleQueries ==
    { "action movies from 2020", "find movie called The Dark Knight", "xyz",
      "comedies with high ratings", "movies starring Tom Hanks", "The Dark Knight",
      "best action films of 1999 starring Brad Pitt in color", "show me the film" }

Vocabulary == { "film called", "war", "2020", "best", "starring", "the", "Up" }

Queries == SampleQueries \cup { Join(" ", ws) : ws \in SeqsUpTo(Vocabulary, MaxWords) }

OpenRouterKeys == { None, "", "sk-or-1" }

TmdbKeys == { None, "", "tmdb-1" }

\* the <type> element of a generated completion; None: no such element
TypeTexts == { None, "discover", "search", "movie" }

ParamList ==
    << <<"with_genres", "Action">>, <<"with_cast", "Tom Hanks">>, <<"with_crew", "Nolan">>,
       <<"sort_by", "vote_average.desc">>, <<"query", "Up">>, <<"page", "2">> >>

RECURSIVE PairsFrom(_, _)
\* the entries of ParamList whose position is in chosen, from position i on, in list order
PairsFrom(chosen, i) ==
    IF i > Len(ParamList) THEN << >>
    ELSE (IF i \in chosen THEN << ParamList[i] >> ELSE << >>) \o PairsFrom(chosen, i + 1)

\* the parameter lists of at most MaxParams entries of ParamList
ParamLists == { PairsFrom(chosen, 1) : chosen \in { c \in SUBSET (1..Len(ParamList)) : Cardinality(c) <= MaxParams } }

RECURSIVE RenderParams(_)
RenderParams(pairs) ==
    IF pairs = << >> THEN ""
    ELSE ParamOpen \o pairs[1][1] \o "\">" \o pairs[1][2] \o ParamClose \o "\n" \o RenderParams(Tail(pairs))

\* a completion in the markup the system prompt asks for
Render(t, pairs) ==
    "<search>\n"
      \o (IF t = None THEN "" ELSE " " \o TypeOpen \o t \o TypeClose \o "\n")
      \o "<params>\n" \o RenderParams(pairs) \o "</params>\n</search>\n"

SampleContents ==
    { "", "Sorry, I cannot help with that.", "<type>discover</type>",
      "<type> discover\n</type> <param name=\" with_genres \"> 28 </param>",
      "<param name=\"with_genres\">noir</param><param name=\"api_key\">other</param>",
      "<type>discover</type><param name=\"with_cast\">Tom Hanks",
      "<type>discover</type><param name=\"page\">2</param><param name=\"sort_by\">x</param><param name=\"page\">3</param>",
      "<search><type>search<params><param name=\"query\">Up</param></params></search>" }

AIContents == SampleContents \cup { Render(t, ps) : t \in TypeTexts, ps \in ParamLists }

Reply(kind, body) == [kind |-> kind, body |-> body]

\* outcomes of the completion call: no connection or timeout, non-2xx status,
\* a body without choices[0].message.content, or a body with that content
AIReplies ==
    { Reply("transport", ""), Reply("status", ""), Reply("badjson", "") }
      \cup { Reply("ok", c) : c \in AIContents }

PersonIds == { 31, 525 }

\* outcomes of /search/person; the body lists the ids of the results, NoId for a result without id
PersonReplies ==
    { Reply("transport", << >>), Reply("status", << >>), Reply("ok", << >>), Reply("ok", << NoId >>) }
      \cup { Reply("ok", << i >>) : i \in PersonIds }
      \cup { Reply("ok", << 31, 525 >>) }

\* upstream results carry id, genre_ids and poster_path (null when there is no poster)
RawMovies ==
    { [id |-> 155, genre_ids |-> << 28, 80 >>, poster_path |-> "/dk.jpg"],
      [id |-> 13, genre_ids |-> << 35 >>, poster_path |-> None] }

\* outcomes of /discover/movie and /search/movie
PrimaryReplies ==
    { Reply("transport", << >>), Reply("status", << >>) }
      \cup { Reply("ok", ms) : ms \in SeqsUpTo(RawMovies, MaxResults) }

GenreTables == { (28 :> "Action" @@ 35 :> "Comedy" @@ 80 :> "Crime"), (28 :> "Action") }

\* outcomes of /genre/movie/list
GenreReplies ==
    { Reply("transport", << >>), Reply("status", << >>) } \cup { Reply("ok", gm) : gm \in GenreTables }

SearchTypes == { "discover", "search", "movie" }

\* the intents handed to TMDBService.search_movies directly
Intents == { Intent(t, DictOf(ps)) : t \in SearchTypes, ps \in ParamLists }

(***************************************************************************)
(* State                                                                   *)
(***************************************************************************)
VARIABLES
    pc,                  \* position of the request being served
    query,               \* SearchQuery.query
    openrouter_api_key,  \* os.getenv("OPENROUTER_API_KEY") as read, then QueryTranslator.api_key
    tmdb_api_key,        \* os.getenv("TMDB_API_KEY") as read, then TMDBService.api_key
    search_params,       \* the intent: result of translate_query, argument of search_movies
    limit,               \* argument limit of search_movies
    api_params,          \* the dict api_params of search_movies, shared with _discover_movies
    calls,               \* outbound calls of this request, in order, each with its outcome
    raw,                 \* movies[:limit] of the primary call
    movies,              \* result of search_movies
    error,               \* str(e) of the exception that left search_movies
    response             \* the HTTP response sent for the last request, until the next one is accepted

vars == << pc, query, openrouter_api_key, tmdb_api_key, search_params, limit, api_params,
           calls, raw, movies, error, response >>

NoIntent == Intent(None, EmptyDict)

NoResponse == [status |-> 0, detail |-> ""]

Call(endpoint, params, reply) == [endpoint |-> endpoint, params |-> params, reply |-> reply]

\* "if not key"
Unset(key) == key = None \/ key = ""

(***************************************************************************)
(* POST /api/search, QueryTranslator.translate_query                       *)
(***************************************************************************)
\* a variant of CredentialError without the check of the TMDB key
CredentialErrorOpenRouterOnly(openrouter_key, tmdb_key) ==
    IF Unset(openrouter_key) THEN "OpenRouter API key not configured" ELSE ""

\* the two credential checks of the handler: the detail of the error raised, "" if none
CredentialError(openrouter_key, tmdb_key) ==
    IF Unset(openrouter_key) THEN "OpenRouter API key not configured"
    ELSE IF Unset(tmdb_key) THEN "TMDB API key not configured"
    ELSE ""

\* the handler up to the try block: read both credentials, refuse the request if one is missing
Request ==
    /\ pc = "idle"
    /\ \E q \in SampleQueries, ok \in OpenRouterKeys, tk \in TmdbKeys :
         /\ query' = q
         /\ openrouter_api_key' = ok
         /\ tmdb_api_key' = tk
         /\ IF CredentialError(ok, tk) # ""
            THEN /\ response' = [status |-> 500, detail |-> CredentialError(ok, tk)]
                 /\ pc' = "idle"
            ELSE /\ response' = NoResponse
                 /\ pc' = "translate"
    /\ search_params' = NoIntent
    /\ api_params' = EmptyDict
    /\ calls' = << >>
    /\ raw' = << >>
    /\ movies' = << >>
    /\ error' = ""
    /\ UNCHANGED limit

\* what _translate_with_ai returns for an outcome of the completion call
TranslateWithAI(natural_query, reply) ==
    IF Failed(reply)
    THEN TranslateWithRules(natural_query)
    ELSE ValidateAndProcessParams(ParseXmlResponse(Strip(reply.body)))

CompletionCall(natural_query, reply) ==
    Call("/chat/completions",
         DictOf(<< <<"content", "Convert this movie search query: " \o natural_query>> >>),
         reply)

\* translate_query
TranslateQuery ==
    /\ pc = "translate"
    /\ IF Unset(openrouter_api_key)
       THEN /\ search_params' = TranslateWithRules(query)
            /\ calls' = calls
       ELSE \E reply \in AIReplies :
              /\ calls' = Append(calls, CompletionCall(query, reply))
              /\ search_params' = TranslateWithAI(query, reply)
    /\ pc' = "execute"
    /\ UNCHANGED << query, openrouter_api_key, tmdb_api_key, limit, api_params, raw, movies,
                    error, response >>

(***************************************************************************)
(* TMDBService.search_movies                                               *)
(***************************************************************************)
\* search_movies up to the dispatch on search_type
SearchMovies ==
    /\ pc = "execute"
    /\ api_params' = ApiParams(tmdb_api_key, search_params.params)
    /\ pc' = IF search_params.search_type = "discover" THEN "cast" ELSE "search"
    /\ UNCHANGED << query, openrouter_api_key, tmdb_api_key, search_params, limit, calls, raw,
                    movies, error, response >>

PersonCall(person_name, reply) ==
    Call("/search/person",
         DictOf(<< <<"api_key", tmdb_api_key>>, <<"query", person_name>>, <<"language", "en-US">> >>),
         reply)

\* a variant of Resolve in which api_params is the params dict of the intent itself
ResolveAliased(key, next) ==
    /\ IF key \in DOMAIN api_params
       THEN \E reply \in PersonReplies :
              /\ calls' = Append(calls, PersonCall(api_params[key], reply))
              /\ api_params' = ResolvePerson(api_params, key, GetPersonId(reply))
       ELSE UNCHANGED << calls, api_params >>
    /\ search_params' = Intent(search_params.search_type, api_params')
    /\ pc' = next
    /\ UNCHANGED << query, openrouter_api_key, tmdb_api_key, limit, raw, movies, error, response >>

\* the block of _discover_movies that resolves params[key], then moves on to next
Resolve(key, next) ==
    /\ IF key \in DOMAIN api_params
       THEN \E reply \in PersonReplies :
              /\ calls' = Append(calls, PersonCall(api_params[key], reply))
              /\ api_params' = ResolvePerson(api_params, key, GetPersonId(reply))
       ELSE UNCHANGED << calls, api_params >>
    /\ pc' = next
    /\ UNCHANGED << query, openrouter_api_key, tmdb_api_key, search_params, limit, raw, movies,
                    error, response >>

\* _discover_movies: if "with_cast" in params
ResolveCast == pc = "cast" /\ Resolve("with_cast", "crew")

\* _discover_movies: if "with_crew" in params
ResolveCrew == pc = "crew" /\ Resolve("with_crew", "discover")

\* the text of the exception raised for a failed call
ErrorText(reply) == IF reply.kind = "status" THEN "Client error '401 Unauthorized'" ELSE "All connection attempts failed"

\* a variant of PrimaryCall that swallows a failed call and goes on with no results
PrimaryCallSwallow(endpoint, params) ==
    /\ \E reply \in PrimaryReplies :
         /\ calls' = Append(calls, Call(endpoint, params, reply))
         /\ raw' = IF Failed(reply) THEN << >> ELSE Take(reply.body, limit)
    /\ error' = error
    /\ pc' = "format"
    /\ api_params' = params
    /\ UNCHANGED << query, openrouter_api_key, tmdb_api_key, search_params, limit, movies, response >>

\* client.get(endpoint, params=params), raise_for_status, movies[:limit]
PrimaryCall(endpoint, params) ==
    /\ \E reply \in PrimaryReplies :
         /\ calls' = Append(calls, Call(endpoint, params, reply))
         /\ IF Failed(reply)
            THEN /\ error' = ErrorText(reply)
                 /\ raw' = raw
                 /\ pc' = "raised"
            ELSE /\ error' = error
                 /\ raw' = Take(reply.body, limit)
                 /\ pc' = "format"
    /\ api_params' = params
    /\ UNCHANGED << query, openrouter_api_key, tmdb_api_key, search_params, limit, movies, response >>

\* _discover_movies from the default sort order on
DiscoverCall == pc = "discover" /\ PrimaryCall("/discover/movie", WithDefaultSort(api_params))

\* _search_movies
SearchCall == pc = "search" /\ PrimaryCall("/search/movie", api_params)

GenreCall(reply) ==
    Call("/genre/movie/list", DictOf(<< <<"api_key", tmdb_api_key>>, <<"language", "en-US">> >>), reply)

\* a variant of FormatMovies in which a failed genre listing raises
FormatMoviesRaising ==
    /\ pc = "format"
    /\ \E reply \in GenreReplies :
         /\ calls' = Append(calls, GenreCall(reply))
         /\ IF Failed(reply)
            THEN /\ movies' = movies
                 /\ error' = ErrorText(reply)
                 /\ pc' = "raised"
            ELSE /\ movies' = FormatAll(raw, reply.body)
                 /\ error' = error
                 /\ pc' = "returned"
    /\ UNCHANGED << query, openrouter_api_key, tmdb_api_key, search_params, limit, api_params, raw,
                    response >>

\* a variant of FormatMovies that fetches the genre table once per movie
FormatMoviesPerMovie ==
    /\ pc = "format"
    /\ \E reply \in GenreReplies :
         /\ calls' = calls \o [n \in 1..Len(raw) |-> GenreCall(reply)]
         /\ movies' = FormatAll(raw, GetGenreMapping(reply))
    /\ pc' = "returned"
    /\ UNCHANGED << query, openrouter_api_key, tmdb_api_key, search_params, limit, api_params, raw,
                    error, response >>

\* _format_movies
FormatMovies ==
    /\ pc = "format"
    /\ \E reply \in GenreReplies :
         /\ calls' = Append(calls, GenreCall(reply))
         /\ movies' = FormatAll(raw, GetGenreMapping(reply))
    /\ pc' = "returned"
    /\ UNCHANGED << query, openrouter_api_key, tmdb_api_key, search_params, limit, api_params, raw,
                    error, response >>

\* the handler after search_movies: the success body (without response_time_ms), or
\* HTTPException(500, str(e))
Respond ==
    /\ pc \in { "returned", "raised" }
    /\ response' = IF pc = "returned"
                   THEN [status |-> 200, detail |-> "", search_params |-> search_params,
                         movies |-> movies, total_count |-> Len(movies)]
                   ELSE [status |-> 500, detail |-> error]
    /\ pc' = "idle"
    /\ UNCHANGED << query, openrouter_api_key, tmdb_api_key, search_params, limit, api_params,
                    calls, raw, movies, error >>

(***************************************************************************)
(* Specifications                                                          *)
(***************************************************************************)
Blank ==
    /\ search_params = NoIntent
    /\ api_params = EmptyDict
    /\ calls = << >>
    /\ raw = << >>
    /\ movies = << >>
    /\ error = ""
    /\ response = NoResponse

\* the server, serving one request after the other
Init ==
    /\ pc = "idle"
    /\ query = ""
    /\ openrouter_api_key = None
    /\ tmdb_api_key = None
    /\ limit = DefaultLimit
    /\ Blank

Execute == SearchMovies \/ ResolveCast \/ ResolveCrew \/ DiscoverCall \/ SearchCall \/ FormatMovies

Next == Request \/ TranslateQuery \/ Execute \/ Respond

Spec == Init /\ [][Next]_vars

\* translate_query alone, on any query and with any credential
InitTranslate ==
    /\ pc = "translate"
    /\ query \in Queries
    /\ openrouter_api_key \in OpenRouterKeys
    /\ tmdb_api_key = None
    /\ limit = DefaultLimit
    /\ Blank

SpecTranslate == InitTranslate /\ [][TranslateQuery]_vars

\* search_movies alone, on any intent and limit
InitExecute ==
    /\ pc = "execute"
    /\ query = ""
    /\ openrouter_api_key = None
    /\ tmdb_api_key = "tmdb-1"
    /\ limit \in 0..MaxLimit
    /\ search_params \in Intents
    /\ api_params = EmptyDict
    /\ calls = << >>
    /\ raw = << >>
    /\ movies = << >>
    /\ error = ""
    /\ response = NoResponse

SpecExecute == InitExecute /\ [][Execute]_vars

(***************************************************************************)
(* Properties                                                              *)
(***************************************************************************)
\* translate_query has returned
Translated == pc = "execute"

\* the completion call was made and reply is its outcome
AICalled == calls # << >> /\ calls[1].endpoint = "/chat/completions"

\* translate_query took the rule-based path: no credential, or the completion call failed
RulesApplied == Translated /\ (calls = << >> \/ Failed(calls[1].reply))

PrimaryEndpoints == { "/discover/movie", "/search/movie" }

\* positions of the primary call in the log of this request
PrimaryCalls == { i \in 1..Len(calls) : calls[i].endpoint \in PrimaryEndpoints }

GenreCalls == { i \in 1..Len(calls) : calls[i].endpoint = "/genre/movie/list" }

\* C1: translate_query always returns an intent whose search_type is "discover" or "search"
\* and whose params is a mapping, whatever the query and the outcome of the completion call.
C1_SearchTypeIsEnum ==
    Translated =>
        /\ search_params.search_type \in { "discover", "search" }
        /\ DOMAIN search_params.params \subseteq STRING

\* the completion text holds neither a <type> element nor a <param> element
Malformed(content) == TypeMatch(content) = None /\ ParamMatches(content, 1) = << >>

\* C2: when the completion call fails or its text is malformed, translate_query returns
\* what the rule-based fallback returns for the same query.
C2_FailureFallsBackToRules ==
    (Translated /\ AICalled /\ (Failed(calls[1].reply) \/ Malformed(calls[1].reply.body)))
        => search_params = TranslateWithRules(query)

DarkKnightQuery == "find movie called The Dark Knight"

\* C3: the rule-based fallback turns "find movie called The Dark Knight" into a title search
\* for "the dark knight".
C3_DarkKnightTitle ==
    (RulesApplied /\ query = DarkKnightQuery)
        => search_params = Intent("search", DictOf(<< <<"query", "the dark knight">> >>))

\* no title phrasing, genre, year, rating phrase or actor cue in the lower-cased query
NoRecognizableTokens(q) ==
    /\ ~HasTitlePhrase(q)
    /\ \A g \in 1..Len(genre_map) : ~Contains(q, genre_map[g][1])
    /\ DetectYear(q) = 0
    /\ ~DetectRating(q)
    /\ ~Contains(q, "starring")

\* the words of q that are longer than two characters and are not stop words
Meaningful(q) == { i \in 1..Len(SplitWS(q)) : Len(SplitWS(q)[i]) > 2 /\ SplitWS(q)[i] \notin stop_words }

\* C4 as stated: the rule-based fallback returns the default intent for every query with no
\* recognizable tokens.
C4_NoTokensGivesDefault ==
    (RulesApplied /\ NoRecognizableTokens(Lower(query))) => search_params = DefaultIntent

\* C4 amended: for a query with no recognizable tokens the rule-based fallback returns the
\* default intent when the query has no word longer than two characters outside the stop
\* words, and otherwise a title search whose only parameter is query.
C4_NoTokensNoKeywordGivesDefault ==
    (RulesApplied /\ NoRecognizableTokens(Lower(query)))
        => IF Meaningful(Lower(query)) = {}
           THEN search_params = DefaultIntent
           ELSE /\ search_params.search_type = "search"
                /\ DOMAIN search_params.params = { "query" }

C4_Witness ==
    /\ RulesApplied
    /\ query = "show me the film"
    /\ search_params = DefaultIntent

\* the parameter keys of the detectors that match the lower-cased query
MatchedKeys(q) ==
    { k \in { "with_genres", "primary_release_year", "vote_average.gte", "with_cast" } :
        \/ k = "with_genres" /\ DetectGenre(q) # 0
        \/ k = "primary_release_year" /\ DetectYear(q) # 0
        \/ k = "vote_average.gte" /\ DetectRating(q)
        \/ k = "with_cast" /\ DetectActor(q) }

YearQuery == "action movies from 2020"

YearIntent == Intent("discover", DictOf(<< <<"with_genres", "28">>, <<"primary_release_year", "2020">> >>))

\* C5 as stated: for every query without title phrasing the rule-based fallback returns a
\* discover intent whose params hold exactly the keys of the detectors that matched.
C5_DetectorsIndependent ==
    (RulesApplied /\ ~HasTitlePhrase(Lower(query)))
        => /\ search_params.search_type = "discover"
           /\ DOMAIN search_params.params = MatchedKeys(Lower(query))
           /\ query = YearQuery => search_params = YearIntent

\* C5 amended: for every query without title phrasing for which at least one detector
\* matched, the rule-based fallback returns a discover intent whose params hold exactly the
\* keys of the detectors that matched; "action movies from 2020" gives with_genres 28 and
\* primary_release_year 2020.
C5_MatchedDetectorsIndependent ==
    (RulesApplied /\ ~HasTitlePhrase(Lower(query)) /\ MatchedKeys(Lower(query)) # {})
        => /\ search_params.search_type = "discover"
           /\ DOMAIN search_params.params = MatchedKeys(Lower(query))
           /\ query = YearQuery => search_params = YearIntent

C5_Witness ==
    /\ RulesApplied
    /\ ~HasTitlePhrase(Lower(query))
    /\ DOMAIN search_params.params = { "with_genres", "primary_release_year", "vote_average.gte", "with_cast" }

PersonKeys == { "with_cast", "with_crew" }

\* search_movies was handed a discover intent that names a person under key
NamesPerson(key) == search_params.search_type = "discover" /\ key \in DOMAIN search_params.params

\* position of the person search for key when search_movies is the whole request
LookupIndex(key) ==
    IF key = "with_cast" THEN 1
    ELSE IF NamesPerson("with_cast") THEN 2 ELSE 1

\* the person search found somebody
Resolved(reply) == reply.kind = "ok" /\ reply.body # << >> /\ reply.body[1] # NoId

\* C6: when the person search for with_cast (with_crew) finds nobody or fails, the primary
\* call carries no with_cast (with_crew) parameter and is still made; when it finds somebody,
\* the parameter sent is that person's id.
C6_UnresolvedPersonDropped ==
    /\ pc = "raised" => PrimaryCalls # {}
    /\ \A i \in PrimaryCalls : \A key \in PersonKeys :
         NamesPerson(key) =>
            LET lookup == calls[LookupIndex(key)]
            IN /\ LookupIndex(key) < i
               /\ lookup.endpoint = "/search/person"
               /\ lookup.params["query"] = search_params.params[key]
               /\ IF Resolved(lookup.reply)
                  THEN /\ key \in DOMAIN calls[i].params
                       /\ calls[i].params[key] = ToStr(lookup.reply.body[1])
                  ELSE key \notin DOMAIN calls[i].params

C6_Witness ==
    /\ NamesPerson("with_cast")
    /\ PrimaryCalls # {}
    /\ Failed(calls[1].reply)
    /\ \A i \in PrimaryCalls : "with_cast" \notin DOMAIN calls[i].params

\* C7: when the primary call fails, no further call is made for the request, search_movies
\* raises, and the request is answered with status 500 and the error text as detail.
C7_PrimaryFailureSurfaced ==
    \A i \in PrimaryCalls :
        Failed(calls[i].reply) =>
            /\ i = Len(calls)
            /\ GenreCalls = {}
            /\ movies = << >>
            /\ pc \in { "raised", "idle" }
            /\ pc = "raised" => error = ErrorText(calls[i].reply)
            /\ pc = "idle" => response = [status |-> 500, detail |-> ErrorText(calls[i].reply)]

C7_Witness ==
    /\ pc = "idle"
    /\ response.status = 500
    /\ \E i \in PrimaryCalls : Failed(calls[i].reply) /\ calls[i].endpoint = "/discover/movie"

\* C8: when the primary call succeeds and the genre listing fails, search_movies returns one
\* record per kept upstream result, in order, each with no genre names and with the genre ids
\* of its upstream result; nothing is raised.
C8_GenreFailureDegrades ==
    \A g \in GenreCalls :
        Failed(calls[g].reply) =>
            /\ pc = "returned"
            /\ error = ""
            /\ \E i \in PrimaryCalls :
                 LET upstream == calls[i].reply.body
                     kept == IF limit < Len(upstream) THEN limit ELSE Len(upstream)
                 IN /\ i < g
                    /\ Len(movies) = kept
                    /\ \A n \in 1..kept :
                         /\ movies[n].id = upstream[n].id
                         /\ movies[n].genre_ids = upstream[n].genre_ids
                         /\ movies[n].genre_names = << >>

C8_Witness ==
    /\ pc = "returned"
    /\ \E g \in GenreCalls : Failed(calls[g].reply)
    /\ Len(movies) = 2
    /\ movies[1].genre_ids # << >>

\* C9: a request handled while a credential is absent is answered with status 500 and a
\* detail, without any outbound call; a request handled while both are present is taken on,
\* also right after a refused one; outbound calls are only made with both credentials.
C9_MissingCredentialPerRequest ==
    [][ /\ calls' # << >> => ~Unset(openrouter_api_key') /\ ~Unset(tmdb_api_key')
        /\ pc = "idle" =>
             IF Unset(openrouter_api_key') \/ Unset(tmdb_api_key')
             THEN /\ pc' = "idle"
                  /\ response'.status = 500
                  /\ response'.detail # ""
                  /\ calls' = << >>
             ELSE /\ pc' = "translate"
                  /\ response' = NoResponse ]_vars

C9_Witness ==
    /\ pc = "idle"
    /\ ~Unset(openrouter_api_key)
    /\ Unset(tmdb_api_key)
    /\ response = [status |-> 500, detail |-> "TMDB API key not configured"]
    /\ calls = << >>

\* C10: the primary call always carries the configured api_key and include_adult "false",
\* language "en-US" and page "1", whatever the params of the intent.
C10_FixedDefaultsSent ==
    \A i \in PrimaryCalls :
        /\ { "api_key", "include_adult", "language", "page" } \subseteq DOMAIN calls[i].params
        /\ calls[i].params["api_key"] = tmdb_api_key
        /\ calls[i].params["include_adult"] = "false"
        /\ calls[i].params["language"] = "en-US"
        /\ calls[i].params["page"] = "1"

CompletionCalls == { i \in 1..Len(calls) : calls[i].endpoint = "/chat/completions" }

PersonCalls == { i \in 1..Len(calls) : calls[i].endpoint = "/search/person" }

\* the person parameters of the intent that _discover_movies has to resolve
PersonParams ==
    IF search_params.search_type = "discover"
    THEN PersonKeys \cap DOMAIN search_params.params
    ELSE {}

\* C11: within one request there is at most one completion call, at most one person search
\* per with_cast/with_crew parameter, at most one primary call and at most one genre listing;
\* the completion call comes first, person searches come before the primary call, and the
\* genre listing comes only after a primary call that succeeded.
C11_NoCallRepeated ==
    /\ Cardinality(CompletionCalls) <= 1
    /\ Cardinality(PersonCalls) <= Cardinality(PersonParams)
    /\ Cardinality(PrimaryCalls) <= 1
    /\ Cardinality(GenreCalls) <= 1
    /\ CompletionCalls \cup PersonCalls \cup PrimaryCalls \cup GenreCalls = 1..Len(calls)
    /\ \A a \in CompletionCalls : a = 1
    /\ \A p \in PersonCalls : \A i \in PrimaryCalls : p < i
    /\ \A g \in GenreCalls : \E i \in PrimaryCalls : i < g /\ ~Failed(calls[i].reply)

C11_Witness ==
    /\ Len(calls) = 5
    /\ Cardinality(PersonCalls) = 2
    /\ Failed(calls[2].reply)
    /\ GenreCalls = { 5 }
    /\ Len(movies) = 2

\* search_movies is running or has come back, the response not yet sent
InSearchMovies == pc \in { "execute", "cast", "crew", "discover", "search", "format", "returned", "raised" }

\* C12: search_movies never changes the intent it was given, neither its search_type nor its
\* params, also when it replaces or drops with_cast/with_crew or adds sort_by in the call it
\* sends; the search_params of a success response are the intent the translator returned.
C12_IntentNotModified ==
    [][ /\ InSearchMovies => search_params' = search_params
        /\ response'.status = 200 => response'.search_params = search_params' ]_vars

C12_Witness ==
    /\ pc = "idle"
    /\ response.status = 200
    /\ response.search_params = search_params
    /\ "with_cast" \in DOMAIN search_params.params
    /\ search_params.params["with_cast"] = "Tom Hanks"
    /\ "sort_by" \notin DOMAIN search_params.params
    /\ \E i \in PrimaryCalls :
         /\ { "sort_by", "with_cast" } \subseteq DOMAIN calls[i].params
         /\ calls[i].params["sort_by"] = "popularity.desc"
         /\ calls[i].params["with_cast"] = "31"

\* the smaller of two numbers
Smaller(a, b) == IF a < b THEN a ELSE b

\* C13: when the primary call succeeds with n results, search_movies returns min(limit, n)
\* records and record k is made from upstream result k, on the discover and on the
\* title-search path alike.
C13_FirstLimitResultsInOrder ==
    pc = "returned" =>
        \E i \in PrimaryCalls :
            LET upstream == calls[i].reply.body
                kept == Smaller(limit, Len(upstream))
            IN /\ ~Failed(calls[i].reply)
               /\ Len(movies) = kept
               /\ \A k \in 1..kept :
                    /\ movies[k].id = upstream[k].id
                    /\ movies[k].genre_ids = upstream[k].genre_ids
                    /\ movies[k].poster_path = upstream[k].poster_path

C13_Witness ==
    /\ pc = "returned"
    /\ limit = 1
    /\ Len(movies) = 1
    /\ movies[1].id = 13
    /\ \E i \in PrimaryCalls :
         /\ calls[i].endpoint = "/search/movie"
         /\ Len(calls[i].reply.body) = 2
         /\ calls[i].reply.body[2].id = 155

\* C14: in the whole request, every call of the title-search endpoint carries a query
\* parameter.
C14_TitleSearchCarriesQuery ==
    \A i \in 1..Len(calls) :
        calls[i].endpoint = "/search/movie" => "query" \in DOMAIN calls[i].params

====
